---- MODULE Spec2Model ----
(***************************************************************************)
(* miniflow: a computation graph of Input / Add / Linear / Sigmoid nodes,  *)
(* Kahn's topological sort over the nodes reachable from a feed            *)
(* dictionary, and the forward pass that evaluates the sorted nodes.       *)
(*                                                                         *)
(* Nodes are numbered 1..Len(kind) in creation order.  A node's value is a *)
(* term: None, an integer, or an application of an operation of numpy that *)
(* is not computed on integers (the float sigmoid, or an operation applied *)
(* to such a result).                                                      *)
(***************************************************************************)
EXTENDS Integers, Sequences, FiniteSets, TLC

\* ---------------------------------------------------------------- bounds
MaxNodes == 4
MaxInputs == 2
MaxEdges == 4
MaxQueue == 6
MaxEvals == 2
MaxReNodes == 3
MaxEdits == 1

\* the values a feed dictionary may hold
Vals == {5, 10}

VARIABLES
    kind,            \* kind[n]: the class of node n
    inbound_nodes,   \* inbound_nodes[n]: the list passed to Node.__init__
    outbound_nodes,  \* outbound_nodes[n]
    value,           \* value[n]
    default_inbound, \* the list object of the default argument inbound_nodes=[]
    pc,              \* where the client / the running function is
    feed_dict,       \* topological_sort: the argument
    input_nodes,     \* topological_sort: the keys, in the dictionary's order
    G,               \* topological_sort: node -> [in, out]
    nodes,           \* topological_sort: the discovery queue
    S,               \* topological_sort: the ready set
    L,               \* topological_sort: the output list
    tick,            \* topological_sort: parity of the discovery loop's iterations
    err,             \* the exception raised, "" when none
    output_node,     \* forward_pass: the argument
    sorted_nodes,    \* forward_pass: the argument
    idx,             \* forward_pass: position of the for loop
    ret,             \* forward_pass: the value returned
    direct,          \* Input.forward called by the client: the node and the argument
    evals,           \* number of topological_sort calls made
    prev             \* what the last completed forward_pass left

graph == <<kind, inbound_nodes, outbound_nodes, default_inbound>>
tsvars == <<feed_dict, input_nodes, G, nodes, S, L, tick>>
fpvars == <<output_node, sorted_nodes, idx, ret, direct>>
vars == <<kind, inbound_nodes, outbound_nodes, value, default_inbound, pc,
          feed_dict, input_nodes, G, nodes, S, L, tick, err,
          output_node, sorted_nodes, idx, ret, direct, evals, prev>>

\* ---------------------------------------------------------------- values
None == [tag |-> "none", n |-> 0, args |-> <<>>]
Num(i) == [tag |-> "num", n |-> i, args |-> <<>>]
Sym(op, as) == [tag |-> op, n |-> 0, args |-> as]

IsNone(v) == v.tag = "none"
IsNum(v) == v.tag = "num"

\* a subtraction where the sum belongs
py_add_minus(x, y) == IF IsNum(x) /\ IsNum(y) THEN Num(x.n - y.n) ELSE Sym("sub", <<x, y>>)

\* Python's and numpy's + on two values that are not None
py_add(x, y) == IF IsNum(x) /\ IsNum(y) THEN Num(x.n + y.n) ELSE Sym("add", <<x, y>>)
\* np.dot on two values that are not None (scalars: the product)
np_dot(x, w) == IF IsNum(x) /\ IsNum(w) THEN Num(x.n * w.n) ELSE Sym("dot", <<x, w>>)
\* 1./(1.+np.exp(-x)): a float, kept as a term
Sigmoid_sigmoid(x) == Sym("sigmoid", <<x>>)

\* ---------------------------------------------------------------- helpers
NodeIds == 1..Len(kind)
Range(s) == {s[i] : i \in 1..Len(s)}
Count(x, s) == Cardinality({i \in 1..Len(s) : s[i] = x})
Perms(T) == {s \in [1..Cardinality(T) -> T] : \A i, j \in 1..Cardinality(T) : s[i] = s[j] => i = j}
Inputs == {n \in NodeIds : kind[n] = "Input"}
NumEdges == Cardinality({<<n, i>> \in NodeIds \X (1..3) : i <= Len(inbound_nodes[n])})

\* the values of the locals while their function is not running
NoG == [n \in {} |-> [in |-> {}, out |-> {}]]
NoFeed == [n \in {} |-> 0]
\* prev: the feed, output node, returned value and node values of the last
\* completed forward_pass; valid while the graph and the feed stay the same
NoPrev == [valid |-> FALSE, feed |-> NoFeed, out |-> 0, ret |-> None, value |-> <<>>]
\* direct while the client has made no call of Input.forward
NoCall == [node |-> 0, value |-> None]

RECURSIVE AppendTo_back(_, _, _)
\* the link made in both directions: self.outbound_nodes.append(n) as well
AppendTo_back(out, inbound, self) ==
    IF inbound = <<>> THEN out
    ELSE AppendTo_back([out EXCEPT ![Head(inbound)] = Append(@, self),
                                   ![self] = Append(@, Head(inbound))],
                       Tail(inbound), self)

RECURSIVE AppendTo(_, _, _)
\* for n in inbound: n.outbound_nodes.append(self)
AppendTo(out, inbound, self) ==
    IF inbound = <<>> THEN out
    ELSE AppendTo([out EXCEPT ![Head(inbound)] = Append(@, self)], Tail(inbound), self)

\* ---------------------------------------------------------------- construction
\* Node.__init__(self, inbound): self is the next free id
Node_init(k, inbound) ==
    LET self == Len(kind) + 1 IN
    /\ pc = "idle"
    /\ evals = 0
    /\ Len(kind) < MaxNodes
    /\ NumEdges + Len(inbound) <= MaxEdges
    /\ kind' = Append(kind, k)
    /\ inbound_nodes' = Append(inbound_nodes, inbound)
    /\ outbound_nodes' = AppendTo(Append(outbound_nodes, <<>>), inbound, self)
    /\ value' = Append(value, None)
    /\ prev' = NoPrev
    /\ UNCHANGED <<default_inbound, pc, tsvars, err, fpvars, evals>>

NewInput ==
    /\ Cardinality(Inputs) < MaxInputs
    /\ Node_init("Input", default_inbound)

NewAdd == \E x, y \in NodeIds : Node_init("Add", <<x, y>>)

NewLinear == \E inputs, weights, bias \in NodeIds : Node_init("Linear", <<inputs, weights, bias>>)

NewSigmoid == \E node \in NodeIds : Node_init("Sigmoid", <<node>>)

\* ---------------------------------------------------------------- initial state
Init ==
    /\ kind = <<>>
    /\ inbound_nodes = <<>>
    /\ outbound_nodes = <<>>
    /\ value = <<>>
    /\ default_inbound = <<>>
    /\ pc = "idle"
    /\ feed_dict = NoFeed
    /\ input_nodes = <<>>
    /\ G = NoG
    /\ nodes = <<>>
    /\ S = {}
    /\ L = <<>>
    /\ tick = 0
    /\ err = ""
    /\ output_node = 0
    /\ sorted_nodes = <<>>
    /\ idx = 0
    /\ ret = None
    /\ direct = NoCall
    /\ evals = 0
    /\ prev = NoPrev

\* ---------------------------------------------------------------- topological_sort
EmptyEntry == [in |-> {}, out |-> {}]

\* if m not in G: G[m] = {'in': set(), 'out': set()}
AddKey(g, m) == IF m \in DOMAIN g THEN g ELSE g @@ (m :> EmptyEntry)

\* G[n]['out'].add(m); G[m]['in'].add(n)
AddEdge(g, n, m) ==
    LET g1 == [g EXCEPT ![n].out = @ \cup {m}]
    IN [g1 EXCEPT ![m].in = @ \cup {n}]

RECURSIVE DiscoverLoop(_, _, _)
\* for m in n.outbound_nodes: the table after the loop
DiscoverLoop(g, n, outs) ==
    IF outs = <<>> THEN g
    ELSE DiscoverLoop(AddEdge(AddKey(g, Head(outs)), n, Head(outs)), n, Tail(outs))

\* nodes.append(m) for every m of the loop
DiscoverQueue(q, outs) == q \o outs

\* a successor taken as ready while one incoming edge remains
NoIncoming_one(g, m) == Cardinality(g[m]["in"]) <= 1

\* the test of the remaining incoming edges left out
NoIncoming_always(g, m) == TRUE

\* if len(G[m]['in']) == 0
NoIncoming(g, m) == g[m]["in"] = {}

RECURSIVE DrainLoop(_, _, _, _)
\* for m in n.outbound_nodes: the table and the ready set after the loop,
\* ok = FALSE when set.remove raised KeyError
DrainLoop(g, s, n, outs) ==
    IF outs = <<>> THEN [G |-> g, S |-> s, ok |-> TRUE]
    ELSE LET m == Head(outs) IN
         IF m \notin g[n].out THEN [G |-> g, S |-> s, ok |-> FALSE]
         ELSE LET g1 == [g EXCEPT ![n].out = @ \ {m}] IN
              IF n \notin g1[m]["in"] THEN [G |-> g1, S |-> s, ok |-> FALSE]
              ELSE LET g2 == [g1 EXCEPT ![m].in = @ \ {n}]
                       s2 == IF NoIncoming(g2, m) THEN s \cup {m} ELSE s
                   IN DrainLoop(g2, s2, n, Tail(outs))

\* topological_sort(feed_dict): input_nodes, G = {}, nodes = copy of input_nodes
TopologicalSortCall ==
    /\ pc = "idle"
    /\ evals < MaxEvals
    /\ evals > 0 => Len(kind) <= MaxReNodes
    /\ \E keys \in SUBSET Inputs : \E fd \in [keys -> Vals] : \E ord \in Perms(keys) :
        /\ feed_dict' = fd
        /\ input_nodes' = ord
        /\ nodes' = ord
        /\ prev' = IF prev.valid /\ prev.feed = fd THEN prev ELSE NoPrev
    /\ G' = NoG
    /\ tick' = 0
    /\ pc' = "discover"
    /\ evals' = evals + 1
    /\ UNCHANGED <<graph, value, S, L, err, fpvars>>

\* one iteration of while len(nodes) > 0; a queue that outgrows MaxQueue stands
\* for the list outgrowing memory, where list.append raises MemoryError
DiscoverStep ==
    /\ pc = "discover"
    /\ nodes # <<>>
    /\ LET n == Head(nodes)
           q == DiscoverQueue(Tail(nodes), outbound_nodes[n])
       IN IF Len(q) > MaxQueue
          THEN /\ pc' = "ts_raised"
               /\ err' = "MemoryError"
               /\ UNCHANGED <<G, nodes>>
          ELSE /\ G' = DiscoverLoop(AddKey(G, n), n, outbound_nodes[n])
               /\ nodes' = q
               /\ UNCHANGED <<pc, err>>
    /\ tick' = 1 - tick
    /\ UNCHANGED <<graph, value, feed_dict, input_nodes, S, L, fpvars, evals, prev>>

\* L = []; S = set(input_nodes)
DrainInit ==
    /\ pc = "discover"
    /\ nodes = <<>>
    /\ L' = <<>>
    /\ S' = Range(input_nodes)
    /\ pc' = "drain"
    /\ UNCHANGED <<graph, value, feed_dict, input_nodes, G, nodes, tick, err, fpvars, evals, prev>>

\* an Input given its feed value only while it has none
FeedInput_once(val, n) ==
    IF kind[n] = "Input" /\ IsNone(val[n]) THEN [val EXCEPT ![n] = Num(feed_dict[n])] ELSE val

\* if isinstance(n, Input): n.value = feed_dict[n]
FeedInput(val, n) ==
    IF kind[n] = "Input" THEN [val EXCEPT ![n] = Num(feed_dict[n])] ELSE val

\* the drain loop taking the edges out of n.outbound_nodes itself
DrainStep_consuming ==
    /\ pc = "drain"
    /\ S # {}
    /\ \E n \in S :
        IF kind[n] = "Input" /\ n \notin DOMAIN feed_dict
        THEN /\ pc' = "ts_raised"
             /\ err' = "KeyError"
             /\ S' = S \ {n}
             /\ UNCHANGED <<value, L, G, outbound_nodes>>
        ELSE LET r == DrainLoop(G, S \ {n}, n, outbound_nodes[n]) IN
             /\ value' = FeedInput(value, n)
             /\ L' = Append(L, n)
             /\ G' = r.G
             /\ S' = r.S
             /\ outbound_nodes' = [outbound_nodes EXCEPT ![n] = <<>>]
             /\ pc' = IF r.ok THEN "drain" ELSE "ts_raised"
             /\ err' = IF r.ok THEN "" ELSE "KeyError"
    /\ UNCHANGED <<kind, inbound_nodes, default_inbound, feed_dict, input_nodes, nodes, tick,
                   fpvars, evals, prev>>

\* one iteration of while len(S) > 0; S.pop() removes an arbitrary element
DrainStep ==
    /\ pc = "drain"
    /\ S # {}
    /\ \E n \in S :
        IF kind[n] = "Input" /\ n \notin DOMAIN feed_dict
        THEN /\ pc' = "ts_raised"
             /\ err' = "KeyError"
             /\ S' = S \ {n}
             /\ UNCHANGED <<value, L, G>>
        ELSE LET r == DrainLoop(G, S \ {n}, n, outbound_nodes[n]) IN
             /\ value' = FeedInput(value, n)
             /\ L' = Append(L, n)
             /\ G' = r.G
             /\ S' = r.S
             /\ pc' = IF r.ok THEN "drain" ELSE "ts_raised"
             /\ err' = IF r.ok THEN "" ELSE "KeyError"
    /\ UNCHANGED <<graph, feed_dict, input_nodes, nodes, tick, fpvars, evals, prev>>

\* return L
DrainReturn ==
    /\ pc = "drain"
    /\ S = {}
    /\ pc' = "sorted"
    /\ UNCHANGED <<graph, value, tsvars, err, fpvars, evals, prev>>

\* ---------------------------------------------------------------- forward
\* Input.forward that never stores its argument
Input_forward_never(val, n, v) == [ok |-> TRUE, v |-> val[n]]

\* Input.forward storing its argument without the test for None
Input_forward_always(val, n, v) == [ok |-> TRUE, v |-> v]

\* Input.forward(self, value=None)
Input_forward(val, n, v) == IF ~IsNone(v) THEN [ok |-> TRUE, v |-> v] ELSE [ok |-> TRUE, v |-> val[n]]

\* Add.forward reading inbound_nodes[0] for both operands
Add_forward_first(val, n) ==
    LET xvalue == val[inbound_nodes[n][1]]
    IN IF IsNone(xvalue) THEN [ok |-> FALSE, v |-> val[n]]
       ELSE [ok |-> TRUE, v |-> py_add(xvalue, xvalue)]

\* Add.forward: None + x raises TypeError
Add_forward(val, n) ==
    LET xvalue == val[inbound_nodes[n][1]]
        yvalue == val[inbound_nodes[n][2]]
    IN IF IsNone(xvalue) \/ IsNone(yvalue) THEN [ok |-> FALSE, v |-> val[n]]
       ELSE [ok |-> TRUE, v |-> py_add(xvalue, yvalue)]

\* Linear.forward adding into the node's own value once it has one
Linear_forward_accumulate(val, n) ==
    LET inputs == val[inbound_nodes[n][1]]
        weights == val[inbound_nodes[n][2]]
        bias == val[inbound_nodes[n][3]]
    IN IF IsNone(inputs) \/ IsNone(weights) \/ IsNone(bias) THEN [ok |-> FALSE, v |-> val[n]]
       ELSE [ok |-> TRUE, v |-> IF IsNone(val[n]) THEN py_add(np_dot(inputs, weights), bias)
                                 ELSE py_add(val[n], py_add(np_dot(inputs, weights), bias))]

\* Linear.forward
Linear_forward(val, n) ==
    LET inputs == val[inbound_nodes[n][1]]
        weights == val[inbound_nodes[n][2]]
        bias == val[inbound_nodes[n][3]]
    IN IF IsNone(inputs) \/ IsNone(weights) \/ IsNone(bias) THEN [ok |-> FALSE, v |-> val[n]]
       ELSE [ok |-> TRUE, v |-> py_add(np_dot(inputs, weights), bias)]

\* Sigmoid.forward applied to the node's own value once it has one
Sigmoid_forward_own(val, n) ==
    LET x == IF IsNone(val[n]) THEN val[inbound_nodes[n][1]] ELSE val[n]
    IN IF IsNone(x) THEN [ok |-> FALSE, v |-> val[n]]
       ELSE [ok |-> TRUE, v |-> Sigmoid_sigmoid(x)]

\* Sigmoid.forward
Sigmoid_forward(val, n) ==
    LET x == val[inbound_nodes[n][1]]
    IN IF IsNone(x) THEN [ok |-> FALSE, v |-> val[n]]
       ELSE [ok |-> TRUE, v |-> Sigmoid_sigmoid(x)]

\* n.forward(), dispatched on the class of n
Forward(val, n) ==
    CASE kind[n] = "Input" -> Input_forward(val, n, None)
      [] kind[n] = "Add" -> Add_forward(val, n)
      [] kind[n] = "Linear" -> Linear_forward(val, n)
      [] kind[n] = "Sigmoid" -> Sigmoid_forward(val, n)

\* the orders of the nodes of l in which every predecessor that is in l comes first
TopoOrders(l) ==
    {o \in Perms(Range(l)) :
        \A i \in 1..Len(o) : \A p \in Range(inbound_nodes[o[i]]) :
            p \in Range(l) => \E j \in 1..(i - 1) : o[j] = p}

\* forward_pass(output_node, sorted_nodes), called with the list topological_sort
\* returned or with another topological order of its nodes
ForwardPassCall ==
    /\ pc = "sorted"
    /\ \E o \in NodeIds : output_node' = o
    /\ \E ord \in {L} \cup TopoOrders(L) : sorted_nodes' = ord
    /\ idx' = 1
    /\ pc' = "forward"
    /\ UNCHANGED <<graph, value, tsvars, err, ret, direct, evals, prev>>

\* forward_pass called again for the same output node, without a new sort
ForwardPassAgain ==
    /\ pc = "fp_done"
    /\ ~prev.valid
    /\ \E ord \in {L} \cup TopoOrders(L) : sorted_nodes' = ord
    /\ idx' = 1
    /\ ret' = None
    /\ pc' = "forward"
    /\ prev' = [valid |-> TRUE, feed |-> feed_dict, out |-> output_node, ret |-> ret, value |-> value]
    /\ UNCHANGED <<graph, value, tsvars, err, output_node, direct, evals>>

\* one iteration of for n in sorted_nodes: n.forward()
ForwardStep ==
    /\ pc = "forward"
    /\ idx <= Len(sorted_nodes)
    /\ LET n == sorted_nodes[idx]
           r == Forward(value, n)
       IN IF r.ok
          THEN /\ value' = [value EXCEPT ![n] = r.v]
               /\ idx' = idx + 1
               /\ UNCHANGED <<pc, err>>
          ELSE /\ pc' = "fp_raised"
               /\ err' = "TypeError"
               /\ UNCHANGED <<value, idx>>
    /\ UNCHANGED <<graph, tsvars, output_node, sorted_nodes, ret, direct, evals, prev>>

\* return output_node.value
ForwardReturn ==
    /\ pc = "forward"
    /\ idx > Len(sorted_nodes)
    /\ ret' = value[output_node]
    /\ pc' = "fp_done"
    /\ UNCHANGED <<graph, value, tsvars, err, output_node, sorted_nodes, idx, direct, evals, prev>>

\* the client goes on after a return or an exception; the locals are gone
Finish ==
    /\ pc \in {"sorted", "fp_done", "ts_raised", "fp_raised", "input_forward"}
    /\ pc' = "idle"
    /\ feed_dict' = NoFeed
    /\ input_nodes' = <<>>
    /\ G' = NoG
    /\ nodes' = <<>>
    /\ S' = {}
    /\ L' = <<>>
    /\ tick' = 0
    /\ err' = ""
    /\ output_node' = 0
    /\ sorted_nodes' = <<>>
    /\ idx' = 0
    /\ ret' = None
    /\ direct' = NoCall
    /\ prev' = IF pc = "fp_done"
               THEN [valid |-> TRUE, feed |-> feed_dict, out |-> output_node, ret |-> ret, value |-> value]
               ELSE IF pc = "sorted" THEN prev ELSE NoPrev
    /\ UNCHANGED <<graph, value, evals>>

\* ---------------------------------------------------------------- specification
Next ==
    \/ NewInput
    \/ NewAdd
    \/ NewLinear
    \/ NewSigmoid
    \/ TopologicalSortCall
    \/ DiscoverStep
    \/ DrainInit
    \/ DrainStep
    \/ DrainReturn
    \/ ForwardPassCall
    \/ ForwardPassAgain
    \/ ForwardStep
    \/ ForwardReturn
    \/ Finish

Spec == Init /\ [][Next]_vars

\* ---------------------------------------------------------------- Input.forward by hand
\* the arguments a client passes to Input.forward: a value, or nothing
ArgVals == {None} \cup {Num(v) : v \in Vals}

\* the client calls n.forward(v) or n.forward() on an Input node, between
\* evaluations
InputForwardCall ==
    /\ pc = "idle"
    /\ evals > 0
    /\ \E n \in Inputs : \E v \in ArgVals :
        /\ value' = [value EXCEPT ![n] = Input_forward(value, n, v).v]
        /\ direct' = [node |-> n, value |-> v]
    /\ pc' = "input_forward"
    /\ prev' = NoPrev
    /\ UNCHANGED <<graph, tsvars, err, output_node, sorted_nodes, idx, ret, evals>>

NextInput ==
    \/ Next
    \/ InputForwardCall

SpecInput == Init /\ [][NextInput]_vars

\* ---------------------------------------------------------------- edited graphs
\* outbound_nodes is a public attribute: a client appends to it outside the
\* constructors (p.outbound_nodes.append(m)), the only way to close a cycle
ExtraEdges ==
    Cardinality({<<n, i>> \in NodeIds \X (1..(MaxEdges + MaxEdits)) : i <= Len(outbound_nodes[n])}) - NumEdges

ClientAppendOutbound ==
    /\ pc = "idle"
    /\ evals = 0
    /\ ExtraEdges < MaxEdits
    /\ \E p, m \in NodeIds : outbound_nodes' = [outbound_nodes EXCEPT ![p] = Append(@, m)]
    /\ UNCHANGED <<kind, inbound_nodes, value, default_inbound, pc, tsvars, err, fpvars, evals, prev>>

NextEdit ==
    \/ NewInput
    \/ NewAdd
    \/ NewLinear
    \/ NewSigmoid
    \/ ClientAppendOutbound
    \/ TopologicalSortCall
    \/ DiscoverStep
    \/ DrainInit
    \/ DrainStep
    \/ DrainReturn
    \/ Finish

\* topological_sort is straight-line sequential code: a step that can run, runs
SpecEdit ==
    /\ Init
    /\ [][NextEdit]_vars
    /\ WF_vars(DiscoverStep)
    /\ WF_vars(DrainInit)
    /\ WF_vars(DrainStep)
    /\ WF_vars(DrainReturn)

\* ---------------------------------------------------------------- graph notions
Succs(n) == Range(outbound_nodes[n])

RECURSIVE ReachFrom(_)
\* the nodes reachable from T by following outbound_nodes, T included
ReachFrom(T) ==
    LET T2 == T \cup UNION {Succs(n) : n \in T}
    IN IF T2 = T THEN T ELSE ReachFrom(T2)

\* some node reachable from T is reachable from itself
CycleReachable(T) == \E n \in ReachFrom(T) : n \in ReachFrom(Succs(n))

Pos(l, n) == CHOOSE i \in 1..Len(l) : l[i] = n

\* the function of a node class applied to the values of its predecessors
Apply(k, a) ==
    CASE k = "Add" -> py_add(a[1], a[2])
      [] k = "Linear" -> py_add(np_dot(a[1], a[2]), a[3])
      [] k = "Sigmoid" -> Sigmoid_sigmoid(a[1])

RECURSIVE FeedValue(_)
\* the value of node n computed from the feed values alone; None when it
\* depends on an Input the feed does not hold
FeedValue(n) ==
    IF kind[n] = "Input"
    THEN IF n \in DOMAIN feed_dict THEN Num(feed_dict[n]) ELSE None
    ELSE LET a == [i \in 1..Len(inbound_nodes[n]) |-> FeedValue(inbound_nodes[n][i])]
         IN IF \E i \in 1..Len(a) : IsNone(a[i]) THEN None ELSE Apply(kind[n], a)

RECURSIVE ValueOver(_, _)
\* the value of node n computed over the nodes of T from the values the Inputs
\* and the nodes outside T hold now
ValueOver(T, n) ==
    IF kind[n] = "Input" \/ n \notin T
    THEN value[n]
    ELSE LET a == [i \in 1..Len(inbound_nodes[n]) |-> ValueOver(T, inbound_nodes[n][i])]
         IN IF \E i \in 1..Len(a) : IsNone(a[i]) THEN None ELSE Apply(kind[n], a)

\* ---------------------------------------------------------------- claims

\* C1: in the list topological_sort returns, every node has each of its
\* predecessors (each element of inbound_nodes) at a strictly earlier index.
C1_PredecessorsFirst ==
    pc = "sorted" =>
        \A i \in 1..Len(L) : \A p \in Range(inbound_nodes[L[i]]) :
            \E j \in 1..(i - 1) : L[j] = p

\* C2: the list topological_sort returns holds exactly the nodes reachable from
\* the feed's keys along outbound_nodes, each of them once.
C2_ExactlyReachableOnce ==
    pc = "sorted" =>
        /\ Range(L) = ReachFrom(DOMAIN feed_dict)
        /\ Len(L) = Cardinality(Range(L))

\* C2 witness: a returned list with a node that has two listed predecessors,
\* one of which is not a key, and a node of the graph outside the list.
C2_Witness ==
    /\ pc = "sorted"
    /\ Len(L) = 3
    /\ Len(kind) = 4
    /\ \E n \in Range(L) :
        /\ Cardinality(Range(inbound_nodes[n])) = 2
        /\ Range(inbound_nodes[n]) \subseteq Range(L)
        /\ ~(Range(inbound_nodes[n]) \subseteq DOMAIN feed_dict)

\* C3: when a cycle is reachable from the fed Inputs, topological_sort ends by
\* raising an error, and it never returns a list.
C3_CycleReported ==
    /\ [](CycleReachable(DOMAIN feed_dict) => pc # "sorted")
    /\ ((pc = "discover" /\ CycleReachable(DOMAIN feed_dict)) ~> (pc = "ts_raised"))

\* C4: every call of topological_sort ends, by returning or by raising.
C4_Terminates == (pc = "discover") ~> (pc \in {"sorted", "ts_raised"})

\* C5: after topological_sort and forward_pass every node of the order has a
\* value, every non-Input node holds its class's function of its predecessors'
\* values, every fed Input holds its feed value, and the value returned is the
\* output node's value computed from the feed values.
C5_Postcondition ==
    (pc = "fp_done" /\ output_node \in Range(sorted_nodes)) =>
        /\ \A n \in Range(sorted_nodes) :
            /\ ~IsNone(value[n])
            /\ kind[n] # "Input" =>
                value[n] = Apply(kind[n], [i \in 1..Len(inbound_nodes[n]) |-> value[inbound_nodes[n][i]]])
            /\ n \in DOMAIN feed_dict => value[n] = Num(feed_dict[n])
        /\ ret = value[output_node]
        /\ ret = FeedValue(output_node)

\* C6: a second forward_pass for the same output node, on the same graph and
\* feed, with or without a new topological_sort in between, returns what the
\* first returned and leaves every node's value as the first left it.
C6_Idempotent ==
    (pc = "fp_done" /\ prev.valid /\ prev.feed = feed_dict /\ prev.out = output_node) =>
        /\ ret = prev.ret
        /\ value = prev.value

\* C6 witness: a second pass over an Add or Linear node, whose value is
\* computed again from its predecessors.
C6_Witness ==
    /\ pc = "fp_done"
    /\ prev.valid
    /\ prev.feed = feed_dict
    /\ prev.out = output_node
    /\ kind[output_node] \in {"Add", "Linear"}
    /\ output_node \in Range(sorted_nodes)
    /\ ~IsNone(ret)

\* C7: whatever order topological_sort returned and whatever topological order
\* of its nodes forward_pass was given, the pass leaves in every node, and
\* returns, the value fixed by the graph and the Inputs' values alone.
C7_OrderIndependent ==
    pc = "fp_done" =>
        /\ \A n \in Range(sorted_nodes) : value[n] = ValueOver(Range(sorted_nodes), n)
        /\ ret = ValueOver(Range(sorted_nodes), output_node)

\* C7 witness: a completed pass over an order that is not the creation order
\* and not the order topological_sort returned, with a computed output.
C7_Witness ==
    /\ pc = "fp_done"
    /\ sorted_nodes # L
    /\ \E i, j \in 1..Len(L) : i < j /\ L[i] > L[j]
    /\ kind[output_node] # "Input"
    /\ output_node \in Range(sorted_nodes)
    /\ ~IsNone(ret)

\* C8: for every pair of nodes (p, m), m occurs in p.outbound_nodes exactly
\* once if p occurs in m.inbound_nodes, and not at all otherwise.
C8_OnceInOutbound ==
    \A p, m \in NodeIds :
        Count(m, outbound_nodes[p]) = IF p \in Range(inbound_nodes[m]) THEN 1 ELSE 0

\* C9: for Inputs a and b, both fed, and c = Add(a, b): the returned list has a
\* and b before c, and forward_pass with output c returns feed[a] + feed[b].
C9_AddScenario ==
    \A c \in NodeIds :
        (/\ kind[c] = "Add"
         /\ inbound_nodes[c][1] # inbound_nodes[c][2]
         /\ Range(inbound_nodes[c]) \subseteq DOMAIN feed_dict) =>
            LET a == inbound_nodes[c][1]
                b == inbound_nodes[c][2]
            IN /\ pc = "sorted" =>
                    /\ Range(inbound_nodes[c]) \cup {c} \subseteq Range(L)
                    /\ Pos(L, a) < Pos(L, c)
                    /\ Pos(L, b) < Pos(L, c)
               /\ (pc = "fp_done" /\ output_node = c) =>
                    ret = Num(feed_dict[a] + feed_dict[b])

\* C9 witness: a fed 5, b fed 10, the list b, a, Add(a, b), and 15 returned.
C9_Witness ==
    /\ pc = "fp_done"
    /\ kind = <<"Input", "Input", "Add">>
    /\ inbound_nodes[3] = <<1, 2>>
    /\ feed_dict = (1 :> 5) @@ (2 :> 10)
    /\ L = <<2, 1, 3>>
    /\ output_node = 3
    /\ ret = Num(15)

\* C10: after a sort and a forward pass over Add(x, y) and Add(y, x) on
\* Inputs x and y, the two Add nodes hold equal values.
C10_AddCommutes ==
    pc = "fp_done" =>
        \A c, d \in Range(sorted_nodes) :
            (/\ kind[c] = "Add"
             /\ kind[d] = "Add"
             /\ inbound_nodes[d] = <<inbound_nodes[c][2], inbound_nodes[c][1]>>
             /\ Range(inbound_nodes[c]) \subseteq Inputs) =>
                value[c] = value[d]

\* C10 witness: both Add nodes evaluated on different feed values.
C10_Witness ==
    /\ pc = "fp_done"
    /\ \E c, d \in Range(sorted_nodes) :
        /\ c # d
        /\ kind[c] = "Add"
        /\ kind[d] = "Add"
        /\ inbound_nodes[d] = <<inbound_nodes[c][2], inbound_nodes[c][1]>>
        /\ Range(inbound_nodes[c]) \subseteq DOMAIN feed_dict
        /\ feed_dict[inbound_nodes[c][1]] # feed_dict[inbound_nodes[c][2]]
        /\ ~IsNone(value[c])

\* ---------------------------------------------------------------- C11
\* C11: a call n.forward(v) made by the client on an Input n stores v in n's
\* value when v is supplied and leaves n's value as it was when v is omitted;
\* either way no other node's value changes and no inbound_nodes or
\* outbound_nodes list changes.
C11_InputForwardFrame ==
    [][(pc = "idle" /\ pc' = "input_forward") =>
        /\ direct'.node \in Inputs
        /\ value' = IF IsNone(direct'.value) THEN value
                    ELSE [value EXCEPT ![direct'.node] = direct'.value]
        /\ UNCHANGED <<kind, inbound_nodes, outbound_nodes, default_inbound>>]_vars

\* C11 witness: after an evaluation the client has stored a value in an Input
\* whose Sigmoid successor still holds the sigmoid of the former value.
C11_Witness ==
    /\ pc = "input_forward"
    /\ ~IsNone(direct.value)
    /\ value[direct.node] = direct.value
    /\ \E m \in NodeIds :
        /\ kind[m] = "Sigmoid"
        /\ inbound_nodes[m] = <<direct.node>>
        /\ ~IsNone(value[m])
        /\ value[m] # Sigmoid_sigmoid(direct.value)

\* ---------------------------------------------------------------- C12
\* C12: no step of the discovery loop changes a node's value; a step of the
\* drain loop changes a value only of the Input it pops, at the step that
\* appends that Input to L and never after, and the new value is the Input's
\* feed value; every fed Input popped gets its feed value at that step; by the
\* end of topological_sort every fed Input has been popped, and so assigned,
\* exactly once; so no value of a node that is not an Input changes during
\* topological_sort.
C12_FeedAssignedAtPop ==
    [][(pc \in {"discover", "drain"}) =>
        /\ pc = "discover" => value' = value
        /\ \A n \in NodeIds :
            /\ value'[n] # value[n] =>
                /\ kind[n] = "Input"
                /\ n \in DOMAIN feed_dict
                /\ n \in S
                /\ n \notin Range(L)
                /\ L' = Append(L, n)
                /\ value'[n] = Num(feed_dict[n])
            /\ (kind[n] = "Input" /\ L' = Append(L, n)) => value'[n] = Num(feed_dict[n])
        /\ pc' \in {"sorted", "ts_raised"} => \A n \in DOMAIN feed_dict : Count(n, L') = 1]_vars

\* ---------------------------------------------------------------- C13
\* the nodes reachable from the fed Inputs that have an Input predecessor the
\* feed omits
UnfedDependents ==
    {m \in ReachFrom(DOMAIN feed_dict) :
        \E p \in Range(inbound_nodes[m]) : kind[p] = "Input" /\ p \notin DOMAIN feed_dict}

\* C13: when the feed omits an Input that is a predecessor of a node reachable
\* from the fed Inputs, topological_sort raises and never returns a list that
\* holds the dependent node without its unfed predecessor.
C13_UnfedPredecessorReported ==
    (pc \in {"discover", "drain", "sorted"} /\ UnfedDependents # {}) =>
        /\ pc # "sorted"
        /\ \A m \in UnfedDependents : m \notin Range(L)

\* ---------------------------------------------------------------- C14
\* the predecessors of m that the discovery loop gave an entry in G
DiscoveredPreds(m) == {p \in DOMAIN G : m \in Range(outbound_nodes[p])}

\* C14: at every step of the drain loop a node that is not an Input is in S or
\* in L only if every predecessor of it that has an entry in G is already in
\* L, and no node is in S and in L at once; a step of the loop adds a node to
\* S exactly when it removes the node's last remaining incoming edge in G, and
\* never a node that is in L.
C14_ReadySet ==
    /\ [](pc \in {"drain", "sorted"} =>
            /\ \A m \in S \cup Range(L) :
                kind[m] # "Input" => DiscoveredPreds(m) \subseteq Range(L)
            /\ S \cap Range(L) = {})
    /\ [][pc = "drain" =>
            \A m \in DOMAIN G :
                /\ (m \in S' /\ m \notin S) <=> (G[m]["in"] # {} /\ G'[m]["in"] = {})
                /\ (m \in S' /\ m \notin S) => (m \notin Range(L'))]_vars

\* C14 witness: in the drain loop a node with two different predecessors is
\* in S, both predecessors in L, while another node is still waiting.
C14_Witness ==
    /\ pc = "drain"
    /\ \E m \in S :
        /\ kind[m] # "Input"
        /\ Cardinality(DiscoveredPreds(m)) >= 2
        /\ DiscoveredPreds(m) \subseteq Range(L)
    /\ \E w \in DOMAIN G : w \notin S /\ w \notin Range(L)

\* ---------------------------------------------------------------- C15
\* C15: no step of topological_sort changes a node's class, inbound_nodes or
\* outbound_nodes, or the shared default list; a later call on the same graph
\* returns a list that covers the nodes reachable from the fed Inputs; and a
\* call with the feed of the evaluation completed before it does not raise
\* and returns a topological order of the very nodes that evaluation covered.
C15_SortKeepsGraph ==
    /\ [][(pc \in {"idle", "discover", "drain"} /\ pc' \in {"discover", "drain", "sorted", "ts_raised"}) =>
            UNCHANGED <<kind, inbound_nodes, outbound_nodes, default_inbound>>]_vars
    /\ [](evals >= 2 /\ pc = "sorted" => Range(L) = ReachFrom(DOMAIN feed_dict))
    /\ [](evals >= 2 /\ prev.valid /\ prev.feed = feed_dict /\ pc \in {"discover", "drain", "sorted", "ts_raised"} =>
            /\ pc # "ts_raised"
            /\ pc = "sorted" =>
                /\ Range(L) = {n \in NodeIds : ~IsNone(prev.value[n])}
                /\ \A m \in Range(L) : Count(m, L) = 1
                /\ \A m \in Range(L) : \A p \in Range(inbound_nodes[m]) :
                        p \in Range(L) /\ Pos(L, p) < Pos(L, m))

\* C15 witness: a second call with the feed of the completed evaluation before
\* it has returned a list with a node of two different predecessors.
C15_Witness ==
    /\ evals >= 2
    /\ prev.valid
    /\ prev.feed = feed_dict
    /\ pc = "sorted"
    /\ \E m \in Range(L) : Cardinality(Range(inbound_nodes[m])) >= 2

\* ---------------------------------------------------------------- C16
\* C16: when no Input outside the feed holds a value, which is so when every
\* earlier feed covered the same Inputs as this one, the value forward_pass
\* returns after topological_sort is the value computed from this feed alone,
\* whatever the earlier feeds were.
C16_NoStaleValues ==
    (pc = "fp_done" /\ \A n \in Inputs : ~IsNone(value[n]) => n \in DOMAIN feed_dict) =>
        ret = FeedValue(output_node)

\* C16 witness: a second evaluation has returned the value of an Add or
\* Linear node, computed from its feed.
C16_Witness ==
    /\ pc = "fp_done"
    /\ evals >= 2
    /\ DOMAIN feed_dict = Inputs
    /\ kind[output_node] \in {"Add", "Linear"}
    /\ ~IsNone(ret)
    /\ ret = FeedValue(output_node)

\* ---------------------------------------------------------------- C17
\* the graph a = Input(), s = Add(a, a), with a fed
AddTwice ==
    /\ kind = <<"Input", "Add">>
    /\ inbound_nodes = <<<<>>, <<1, 1>>>>
    /\ DOMAIN feed_dict = {1}

\* C17: for s = Add(a, a) with a fed v, topological_sort does not raise and
\* returns the list a, s; forward_pass for s then does not raise and returns
\* v + v.
C17_AddTwice ==
    AddTwice =>
        /\ pc \notin {"ts_raised", "fp_raised"}
        /\ pc = "sorted" => L = <<1, 2>>
        /\ (pc = "fp_done" /\ output_node = 2) => ret = Num(feed_dict[1] + feed_dict[1])

\* ---------------------------------------------------------------- C18
\* C18: a step of forward_pass changes the value of no node but the node of
\* sorted_nodes it calls forward on, and of that node only when it is not an
\* Input, so every Input has after the pass the value it had before; no
\* node's class, inbound_nodes or outbound_nodes changes.
C18_ForwardPassFrame ==
    [][(pc \in {"sorted", "fp_done", "forward"} /\ pc' \in {"forward", "fp_done", "fp_raised"}) =>
        /\ \A n \in NodeIds :
            value'[n] # value[n] =>
                /\ kind[n] # "Input"
                /\ pc = "forward"
                /\ idx <= Len(sorted_nodes)
                /\ n = sorted_nodes[idx]
        /\ UNCHANGED <<kind, inbound_nodes, outbound_nodes, default_inbound>>]_vars

\* C18 witness: a completed pass over a list with a fed Input, which keeps its
\* feed value, and a node that is not an Input, which has got a value.
C18_Witness ==
    /\ pc = "fp_done"
    /\ \E a \in Range(sorted_nodes) :
        /\ kind[a] = "Input"
        /\ value[a] = Num(feed_dict[a])
    /\ \E m \in Range(sorted_nodes) : kind[m] # "Input" /\ ~IsNone(value[m])

\* ---------------------------------------------------------------- C19
\* C19: in every graph built by calls of the constructors alone, no node is
\* reachable from itself along outbound_nodes, every Input has an empty
\* inbound_nodes and is in no node's outbound_nodes, and the shared default
\* list is empty.
C19_ConstructedAcyclic ==
    /\ ~CycleReachable(NodeIds)
    /\ default_inbound = <<>>
    /\ \A n \in Inputs :
        /\ inbound_nodes[n] = <<>>
        /\ \A p \in NodeIds : n \notin Range(outbound_nodes[p])

\* C19 witness: a graph of MaxNodes nodes and MaxEdges edges with a Linear
\* node and a Sigmoid node built on it.
C19_Witness ==
    /\ Len(kind) = MaxNodes
    /\ NumEdges = MaxEdges
    /\ \E m, s \in NodeIds :
        /\ kind[m] = "Linear"
        /\ kind[s] = "Sigmoid"
        /\ inbound_nodes[s] = <<m>>

====
